---- MODULE Spec2Model ----
(***************************************************************************)
(* Purchase synchronization state (PurchaseProvider, PurchaseContext) and  *)
(* the RevenueCat service wrappers it calls (services/purchases.ts).       *)
(*                                                                         *)
(* The model follows the JavaScript run-to-completion discipline: a vendor *)
(* promise settles in one step (a native callback), the code that awaits   *)
(* it resumes in the next step (the microtask), and no other callback runs *)
(* between the two.  Each synchronous stretch of a handler is one action.  *)
(***************************************************************************)
EXTENDS Naturals, FiniteSets, Sequences, Bags, TLC

\* How many calls of context operations may be pending at once.
MaxCalls == 2

\* How many useChat requests may be pending at once.
MaxRequests == 2

\* How many chunks a stream delivers at most.
MaxChunks == 2

\* How many messages the conversation holds at most.
MaxMessages == 2

\* ---------------------------------------------------------------- values

\* JavaScript null for object-valued state (offerings, customerInfo).
Null == [null |-> TRUE]

\* JavaScript null for the string-valued error state.
NoError == "null"

\* Entitlement identifiers the vendor may report as active.
EntitlementIds == {"premium", "pro"}

\* Default of the premiumEntitlementId prop.
premiumEntitlementId == "premium"

\* A CustomerInfo: entitlements.active, as the set of its keys.
CustomerInfo(ids) == [active |-> ids]

\* Every CustomerInfo the state can hold.
CustomerInfos == {CustomerInfo(ids) : ids \in SUBSET EntitlementIds}

\* The CustomerInfos the vendor returns: no entitlement, or one.
Snapshots == {CustomerInfo({})} \cup {CustomerInfo({e}) : e \in EntitlementIds}

\* The offerings catalog the vendor returns.
Catalogs == {[current |-> "default"]}

\* Packages a caller may pass to purchasePackage.
Packages == {"pkgAnnual", "pkgMonthly"}

\* JavaScript null for PaywallScreen's selectedPackage.
NoPackage == "null"

\* User identifiers a caller may pass to login.
UserIds == {"u1"}

\* A vendor error: PurchasesError.userCancelled and Error.message
\* ("" stands for a missing or empty message, which is falsy).
VendorMessages == {"", "E_VENDOR"}

VendorErrors ==
  {[kind |-> "error", userCancelled |-> uc, message |-> m] :
      uc \in BOOLEAN, m \in VendorMessages}

VendorOk(v) == [kind |-> "ok", value |-> v]

Pending == [kind |-> "pending"]

NotStarted == [kind |-> "idle"]

\* Outcomes of a vendor call that returns a CustomerInfo.
InfoOutcomes == {VendorOk(s) : s \in Snapshots} \cup VendorErrors

\* What init's .catch(() => null) leaves of a rejected fetch.
Rejected == [kind |-> "error"]

\* Outcomes of Purchases.getOfferings in init.
OfferingsOutcomes == {VendorOk(c) : c \in Catalogs} \cup {Rejected}

\* Outcomes of Purchases.getCustomerInfo in init.
CustomerInfoOutcomes == {VendorOk(s) : s \in Snapshots} \cup {Rejected}

\* Outcomes of Purchases.configure.
ConfigureOutcomes == {"fulfilled", "rejected"}

\* a || b on strings
Or(a, b) == IF a = "" THEN b ELSE a

\* ----------------------------------------------------------------- state

VARIABLES
  isInitialized,   \* useState(false)
  isLoading,       \* useState(true)
  offerings,       \* useState(null)
  customerInfo,    \* useState(null)
  error,           \* useState(null)
  isPremium,       \* the isPremium of the rendered context value
  memoInfo,        \* the customerInfo the rendered checkEntitlement closes over
  pcInit,          \* position of the init effect
  configure,       \* init: the Purchases.configure promise ("none": no API key)
  offFetch,        \* init: the getOfferings() promise
  ciFetch,         \* init: the getCustomerInfo() promise
  awaiting,        \* the calls of context operations awaiting their vendor call
  current,         \* the call whose continuation the event loop runs next
  selectedPackage, \* PaywallScreen: useState(null)
  isPurchasing,    \* PaywallScreen: useState(false)
  isRestoring,     \* RestorePurchasesButton: useState(false)
  handlerIsPremium, \* RestorePurchasesButton: the isPremium handleRestore closed over
  alert,           \* RestorePurchasesButton: title of the last Alert.alert
  shownPackage,    \* PaywallScreen: the package whose price label is rendered
  priceLabels,     \* PaywallScreen: the labels formatPrice has returned
  messages,        \* useChat: useState(initial messages)
  chatIsLoading,   \* useChat: isLoading, useState(false)
  isStreaming,     \* useChat: useState(false)
  chatError,       \* useChat: error, useState(null)
  streamingContent, \* useChat: useState('')
  shouldStopRef,   \* useChat: shouldStopRef.current, useRef(false)
  chatRequests,    \* useChat: the send and sendStream calls awaiting the AI service
  hasLaunchPulseEnv, \* storage.ts: the API key, project id and URL are all set
  upload,          \* storage.ts: the uploadUri/uploadBlob call and its position
  storageLog,      \* storage.ts: the requests that call has sent, in order
  putResult        \* storage.ts: how the PUT of that call settled

vars == <<isInitialized, isLoading, offerings, customerInfo, error, isPremium,
          memoInfo, pcInit, configure, offFetch, ciFetch, awaiting, current,
          selectedPackage, isPurchasing, isRestoring, handlerIsPremium, alert,
          shownPackage, priceLabels,
          messages, chatIsLoading, isStreaming, chatError, streamingContent,
          shouldStopRef, chatRequests,
          hasLaunchPulseEnv, upload, storageLog, putResult>>

ctxState == <<isInitialized, isLoading, offerings, customerInfo, error, isPremium,
             memoInfo>>

initState == <<pcInit, configure, offFetch, ciFetch>>

uiState == <<selectedPackage, isPurchasing, isRestoring, handlerIsPremium, alert>>

labelState == <<shownPackage, priceLabels>>

chatState == <<messages, chatIsLoading, isStreaming, chatError, streamingContent,
              shouldStopRef, chatRequests>>

storageState == <<hasLaunchPulseEnv, upload, storageLog, putResult>>

\* The state of the modules the purchase context never touches.
outside == <<labelState, chatState, storageState>>

\* The state of the purchase context and of its consumer components.
providerState == <<ctxState, initState, awaiting, current, uiState>>

\* ------------------------------------------------------- pure functions

\* customerInfo?.entitlements.active[entitlementId] !== undefined
HasActive(ci, entitlementId) ==
  /\ ci # Null
  /\ entitlementId \in ci.active

\* An isPremium that is left from the customerInfo of the previous render.
IsPremiumOf_Stale(ci) == HasActive(customerInfo, premiumEntitlementId)

\* const isPremium = customerInfo?.entitlements.active[premiumEntitlementId] !== undefined
IsPremiumOf(ci) == HasActive(ci, premiumEntitlementId)

\* A checkEntitlement memoized with an empty dependency list: it keeps the
\* customerInfo of the render that created it.
UseCallbackDeps_Empty(captured, ci) == captured

\* useCallback(..., [customerInfo]): the render after a write of customerInfo
\* creates a checkEntitlement that closes over the new customerInfo
UseCallbackDeps(captured, ci) == ci

\* checkEntitlement(entitlementId) of the rendered context value
checkEntitlement(entitlementId) ==
  IF HasActive(memoInfo, entitlementId) THEN "true" ELSE "false"

\* How the promise of initializePurchases() settles, given the API key and
\* the outcome of Purchases.configure: without a key it returns early, and a
\* configure failure is caught and logged, not rethrown.
initializePurchases(conf) ==
  IF conf = "none" THEN "resolved"
  ELSE IF conf = "fulfilled" THEN "resolved"
  ELSE "resolved"

\* X().catch(() => null) of init: the value the fetch contributes
CatchNull(outcome) == IF outcome.kind = "ok" THEN outcome.value ELSE Null

\* setCustomerInfo(info) that merges the entitlements into the held ones.
SetCustomerInfo_Merge(prev, info) ==
  IF prev = Null THEN info ELSE CustomerInfo(prev.active \cup info.active)

\* setCustomerInfo(info): the state is replaced by the returned CustomerInfo
SetCustomerInfo(prev, info) == info

\* setIsLoading(false) at the end of the try block instead of in finally.
LoadingAfterFinally_TryOnly(out) == IF out.kind = "ok" THEN FALSE ELSE isLoading

\* finally { setIsLoading(false) }
LoadingAfterFinally(out) == FALSE

\* A purchase catch without the userCancelled test.
PurchaseCatchError_NoCancelTest(err, cur) == Or(err.message, "Purchase failed")

\* A purchase catch that drops the vendor message.
PurchaseCatchError_Generic(err, cur) ==
  IF ~err.userCancelled THEN "Purchase failed" ELSE cur

\* catch of purchasePackage: if (!err.userCancelled) setError(err.message || 'Purchase failed')
PurchaseCatchError(err, cur) ==
  IF ~err.userCancelled THEN Or(err.message, "Purchase failed") ELSE cur

\* A restore catch with the userCancelled test of the purchase catch.
RestoreCatchError_CancelTest(err, cur) ==
  IF ~err.userCancelled THEN Or(err.message, "Failed to restore purchases") ELSE cur

\* catch of restorePurchases: setError(err.message || 'Failed to restore purchases')
RestoreCatchError(err, cur) == Or(err.message, "Failed to restore purchases")

\* A restore that reports success only when the premium entitlement came back.
RestoreReturn_IfPremium(info) ==
  IF HasActive(info, premiumEntitlementId) THEN "true" ELSE "false"

\* try of restorePurchases: setCustomerInfo(info); return true
RestoreReturn(info) == "true"

\* A catch of refresh/login/logout that surfaces the failure like restore.
QuietCatchError_Surfaced(err, cur) == Or(err.message, "Failed to restore purchases")

\* catch of refreshCustomerInfo, login, logout: console.error only
QuietCatchError(err, cur) == cur

\* refresh/login/logout without their catch: the rejection reaches the caller.
QuietReturn_Rethrow(out) == IF out.kind = "ok" THEN "void" ELSE "rejected"

\* refreshCustomerInfo, login, logout resolve void after try and after catch
QuietReturn(out) == "void"

\* ----------------------------------------------------------------- calls

\* No call.
Idle == [op |-> "none", caller |-> "none", st |-> "idle", arg |-> "none",
         pre |-> NoError, out |-> NotStarted, ret |-> "none"]

\* A call made by caller that awaits its vendor call; pre is the error its
\* caller saw.
AwaitingBy(caller, op, pre) == [op |-> op, caller |-> caller, pre |-> pre]

\* A call that awaits its vendor call, made by some consumer of the context.
Awaiting(op, pre) == AwaitingBy("app", op, pre)

\* A continuation is queued: the event loop runs it before any other callback.
InitResumable ==
  \/ pcInit = "configured"
  \/ pcInit = "fetching" /\ offFetch # Pending /\ ciFetch # Pending

MicrotaskQueued == InitResumable \/ current # Idle

\* ------------------------------------------------------------------ Init

\* The state after the first render and the init effect's call of init(),
\* which runs up to its first await: Purchases.configure when the platform
\* has an API key, else initializePurchases returns at once.
ProviderInit ==
  /\ isInitialized = FALSE
  /\ isLoading = TRUE
  /\ offerings = Null
  /\ customerInfo = Null
  /\ error = NoError
  /\ isPremium = IsPremiumOf(Null)
  /\ memoInfo = Null
  /\ configure \in {"none", "pending"}
  /\ pcInit = IF configure = "none" THEN "configured" ELSE "configuring"
  /\ offFetch = NotStarted
  /\ ciFetch = NotStarted
  /\ awaiting = EmptyBag
  /\ current = Idle
  /\ selectedPackage = NoPackage
  /\ isPurchasing = FALSE
  /\ isRestoring = FALSE
  /\ handlerIsPremium = IsPremiumOf(Null)
  /\ alert = "none"

\* No package card is being rendered.
LabelIdle ==
  /\ shownPackage = Null
  /\ priceLabels = <<>>

\* No useChat request.
NoRequest == [kind |-> "none", full |-> <<>>, stopped |-> FALSE]

\* useChat after its first render, without systemPrompt and initialMessages.
ChatInit ==
  /\ messages = <<>>
  /\ chatIsLoading = FALSE
  /\ isStreaming = FALSE
  /\ chatError = NoError
  /\ streamingContent = <<>>
  /\ shouldStopRef = FALSE
  /\ chatRequests = [r \in 1..MaxRequests |-> NoRequest]

\* No upload call.
NoUpload == [op |-> "none", pc |-> "idle", result |-> "none"]

\* No PUT has settled.
NoPut == [kind |-> "none"]

\* storage.ts with no upload under way.
StorageIdle ==
  /\ upload = NoUpload
  /\ storageLog = <<>>
  /\ putResult = NoPut

Init ==
  /\ ProviderInit
  /\ LabelIdle
  /\ ChatInit
  /\ StorageIdle
  /\ hasLaunchPulseEnv = TRUE

\* ---------------------------------------------------- the init effect

\* Purchases.configure({ apiKey }) settles.
ConfigureSettle(conf) ==
  /\ pcInit = "configuring"
  /\ ~MicrotaskQueued
  /\ configure' = conf
  /\ pcInit' = "configured"
  /\ UNCHANGED <<ctxState, offFetch, ciFetch, awaiting, current, uiState, outside>>

\* An init that starts the fetches and marks the context initialized only
\* once they are back.
InitAfterInitialize_LateInitialized ==
  /\ pcInit = "configured"
  /\ offFetch' = Pending
  /\ ciFetch' = Pending
  /\ pcInit' = "fetching"
  /\ configure' = "awaited"
  /\ UNCHANGED <<ctxState, awaiting, current, uiState, outside>>

\* init resumes after await initializePurchases().
InitAfterInitialize ==
  /\ pcInit = "configured"
  /\ IF initializePurchases(configure) = "resolved"
       THEN /\ isInitialized' = TRUE
            /\ offFetch' = Pending
            /\ ciFetch' = Pending
            /\ pcInit' = "fetching"
            /\ UNCHANGED <<isLoading, error>>
       ELSE /\ error' = "Failed to initialize purchases"
            /\ isLoading' = FALSE
            /\ pcInit' = "done"
            /\ UNCHANGED <<isInitialized, offFetch, ciFetch>>
  /\ configure' = "awaited"
  /\ UNCHANGED <<offerings, customerInfo, isPremium, memoInfo, awaiting, current, uiState, outside>>

\* Purchases.getOfferings() of init settles.
OfferingsSettle(outcome) ==
  /\ pcInit = "fetching"
  /\ offFetch = Pending
  /\ ~MicrotaskQueued
  /\ offFetch' = outcome
  /\ UNCHANGED <<ctxState, pcInit, configure, ciFetch, awaiting, current, uiState, outside>>

\* Purchases.getCustomerInfo() of init settles.
CustomerInfoSettle(outcome) ==
  /\ pcInit = "fetching"
  /\ ciFetch = Pending
  /\ ~MicrotaskQueued
  /\ ciFetch' = outcome
  /\ UNCHANGED <<ctxState, pcInit, configure, offFetch, awaiting, current, uiState, outside>>

\* An init whose Promise.all has no per-fetch catch: one rejected fetch
\* rejects the join and init goes to its catch block.
InitAfterFetches_Join ==
  /\ pcInit = "fetching"
  /\ offFetch.kind \in {"ok", "error"}
  /\ ciFetch.kind \in {"ok", "error"}
  /\ IF offFetch.kind = "ok" /\ ciFetch.kind = "ok"
       THEN /\ offerings' = offFetch.value
            /\ customerInfo' = ciFetch.value
            /\ UNCHANGED error
       ELSE /\ error' = "Failed to initialize purchases"
            /\ UNCHANGED <<offerings, customerInfo>>
  /\ isPremium' = IsPremiumOf(customerInfo')
  /\ memoInfo' = UseCallbackDeps(memoInfo, customerInfo')
  /\ isLoading' = FALSE
  /\ pcInit' = "done"
  /\ offFetch' = NotStarted
  /\ ciFetch' = NotStarted
  /\ UNCHANGED <<isInitialized, configure, awaiting, current, uiState, outside>>

\* init resumes after await Promise.all([...]).
InitAfterFetches ==
  /\ pcInit = "fetching"
  /\ offFetch.kind \in {"ok", "error"}
  /\ ciFetch.kind \in {"ok", "error"}
  /\ offerings' = CatchNull(offFetch)
  /\ customerInfo' = CatchNull(ciFetch)
  /\ isPremium' = IsPremiumOf(customerInfo')
  /\ memoInfo' = UseCallbackDeps(memoInfo, customerInfo')
  /\ isLoading' = FALSE
  /\ pcInit' = "done"
  /\ offFetch' = NotStarted
  /\ ciFetch' = NotStarted
  /\ UNCHANGED <<isInitialized, error, configure, awaiting, current, uiState, outside>>

InitEffect ==
  \/ \E conf \in ConfigureOutcomes : ConfigureSettle(conf)
  \/ InitAfterInitialize
  \/ \E o \in OfferingsOutcomes : OfferingsSettle(o)
  \/ \E o \in CustomerInfoOutcomes : CustomerInfoSettle(o)
  \/ InitAfterFetches

\* ------------------------------------------- operations of the context

\* The synchronous start of purchasePackage or restorePurchases, called by
\* caller: setIsLoading(true); setError(null); then the vendor call is issued.
StartLoadingBy(caller, op, pre) ==
  /\ ~MicrotaskQueued
  /\ BagCardinality(awaiting) < MaxCalls
  /\ isLoading' = TRUE
  /\ error' = NoError
  /\ awaiting' = awaiting (+) SetToBag({AwaitingBy(caller, op, pre)})
  /\ UNCHANGED <<isInitialized, offerings, customerInfo, isPremium, memoInfo,
                 initState, current>>

\* A start that leaves the loading flag as it is.
StartLoading_NoLoading(op, pre) ==
  /\ ~MicrotaskQueued
  /\ BagCardinality(awaiting) < MaxCalls
  /\ error' = NoError
  /\ awaiting' = awaiting (+) SetToBag({Awaiting(op, pre)})
  /\ UNCHANGED <<isInitialized, isLoading, offerings, customerInfo, isPremium,
                 memoInfo, initState, current, uiState, outside>>

\* A start that leaves the error of the previous attempt.
StartLoading_KeepError(op, pre) ==
  /\ ~MicrotaskQueued
  /\ BagCardinality(awaiting) < MaxCalls
  /\ isLoading' = TRUE
  /\ awaiting' = awaiting (+) SetToBag({Awaiting(op, pre)})
  /\ UNCHANGED <<isInitialized, offerings, customerInfo, error, isPremium,
                 memoInfo, initState, current, uiState, outside>>

\* A start that refuses to run while the loading flag is set.
StartLoading_Guarded(op, pre) ==
  /\ ~MicrotaskQueued
  /\ BagCardinality(awaiting) < MaxCalls
  /\ ~isLoading
  /\ isLoading' = TRUE
  /\ error' = NoError
  /\ awaiting' = awaiting (+) SetToBag({Awaiting(op, pre)})
  /\ UNCHANGED <<isInitialized, offerings, customerInfo, isPremium, memoInfo,
                 initState, current, uiState, outside>>

\* The synchronous start of an operation that sets the loading flag, called
\* by some consumer of the context.
StartLoading(op, pre) ==
  /\ StartLoadingBy("app", op, pre)
  /\ UNCHANGED <<uiState, outside>>

\* The synchronous start of an operation that only issues its vendor call.
StartQuiet(op) ==
  /\ ~MicrotaskQueued
  /\ BagCardinality(awaiting) < MaxCalls
  /\ awaiting' = awaiting (+) SetToBag({Awaiting(op, NoError)})
  /\ UNCHANGED <<ctxState, initState, current, uiState, outside>>

\* purchasePackage(pkg), up to await doPurchase(pkg)
PurchaseStart(pkg) == StartLoading("purchasePackage", error)

\* restorePurchases(), up to await doRestore()
RestoreStart == StartLoading("restorePurchases", NoError)

\* refreshCustomerInfo(), up to await getCustomerInfo()
RefreshStart == StartQuiet("refreshCustomerInfo")

\* login(userId), up to await identifyUser(userId)
LoginStart(userId) == StartQuiet("login")

\* logout(), up to await logOutUser()
LogoutStart == StartQuiet("logout")

\* The vendor call of an awaiting call settles; the service wrapper returns
\* the CustomerInfo or logs and rethrows the error.
VendorSettle(call, outcome) ==
  /\ BagIn(call, awaiting)
  /\ ~MicrotaskQueued
  /\ awaiting' = awaiting (-) SetToBag({call})
  /\ current' = [op |-> call.op, caller |-> call.caller, st |-> "settled",
                 arg |-> "none",
                 pre |-> call.pre, out |-> outcome, ret |-> "pending"]
  /\ UNCHANGED <<ctxState, initState, uiState, outside>>

Return(value) == [current EXCEPT !.st = "returned", !.ret = value]

\* A purchase that issues its vendor call again when it failed without a
\* cancellation.
PurchaseResume_Retry ==
  /\ current.st = "settled"
  /\ current.op = "purchasePackage"
  /\ IF current.out.kind = "ok"
       THEN /\ customerInfo' = SetCustomerInfo(customerInfo, current.out.value)
            /\ current' = Return("true")
            /\ isLoading' = LoadingAfterFinally(current.out)
            /\ UNCHANGED <<error, awaiting>>
       ELSE IF current.out.userCancelled
         THEN /\ current' = Return("false")
              /\ isLoading' = LoadingAfterFinally(current.out)
              /\ UNCHANGED <<error, customerInfo, awaiting>>
         ELSE /\ current' = Idle
              /\ awaiting' = awaiting (+)
                   SetToBag({AwaitingBy(current.caller, current.op, current.pre)})
              /\ UNCHANGED <<error, customerInfo, isLoading>>
  /\ isPremium' = IsPremiumOf(customerInfo')
  /\ memoInfo' = UseCallbackDeps(memoInfo, customerInfo')
  /\ UNCHANGED <<isInitialized, offerings, initState, uiState, outside>>

\* purchasePackage resumes: try / catch / finally
PurchaseResume ==
  /\ current.st = "settled"
  /\ current.op = "purchasePackage"
  /\ IF current.out.kind = "ok"
       THEN /\ customerInfo' = SetCustomerInfo(customerInfo, current.out.value)
            /\ current' = Return("true")
            /\ UNCHANGED error
       ELSE /\ error' = PurchaseCatchError(current.out, error)
            /\ current' = Return("false")
            /\ UNCHANGED customerInfo
  /\ isLoading' = LoadingAfterFinally(current.out)
  /\ isPremium' = IsPremiumOf(customerInfo')
  /\ memoInfo' = UseCallbackDeps(memoInfo, customerInfo')
  /\ UNCHANGED <<isInitialized, offerings, initState, awaiting, uiState, outside>>

\* A restore that also reloads the offerings catalog on success.
RestoreResume_ReloadOfferings ==
  /\ current.st = "settled"
  /\ current.op = "restorePurchases"
  /\ IF current.out.kind = "ok"
       THEN /\ customerInfo' = SetCustomerInfo(customerInfo, current.out.value)
            /\ offerings' = CHOOSE c \in Catalogs : TRUE
            /\ current' = Return(RestoreReturn(current.out.value))
            /\ UNCHANGED error
       ELSE /\ error' = RestoreCatchError(current.out, error)
            /\ current' = Return("false")
            /\ UNCHANGED <<customerInfo, offerings>>
  /\ isLoading' = LoadingAfterFinally(current.out)
  /\ isPremium' = IsPremiumOf(customerInfo')
  /\ memoInfo' = UseCallbackDeps(memoInfo, customerInfo')
  /\ UNCHANGED <<isInitialized, initState, awaiting, uiState, outside>>

\* restorePurchases resumes: try / catch / finally
RestoreResume ==
  /\ current.st = "settled"
  /\ current.op = "restorePurchases"
  /\ IF current.out.kind = "ok"
       THEN /\ customerInfo' = SetCustomerInfo(customerInfo, current.out.value)
            /\ current' = Return(RestoreReturn(current.out.value))
            /\ UNCHANGED error
       ELSE /\ error' = RestoreCatchError(current.out, error)
            /\ current' = Return("false")
            /\ UNCHANGED customerInfo
  /\ isLoading' = LoadingAfterFinally(current.out)
  /\ isPremium' = IsPremiumOf(customerInfo')
  /\ memoInfo' = UseCallbackDeps(memoInfo, customerInfo')
  /\ UNCHANGED <<isInitialized, offerings, initState, awaiting, uiState, outside>>

QuietOps == {"refreshCustomerInfo", "login", "logout"}

\* A refresh/login/logout with the finally block of restorePurchases.
QuietResume_Finally ==
  /\ current.st = "settled"
  /\ current.op \in QuietOps
  /\ IF current.out.kind = "ok"
       THEN /\ customerInfo' = SetCustomerInfo(customerInfo, current.out.value)
            /\ UNCHANGED error
       ELSE /\ error' = QuietCatchError(current.out, error)
            /\ UNCHANGED customerInfo
  /\ current' = Return(QuietReturn(current.out))
  /\ isLoading' = FALSE
  /\ isPremium' = IsPremiumOf(customerInfo')
  /\ memoInfo' = UseCallbackDeps(memoInfo, customerInfo')
  /\ UNCHANGED <<isInitialized, offerings, initState, awaiting, uiState, outside>>

\* refreshCustomerInfo, login and logout resume: try / catch (log only)
QuietResume ==
  /\ current.st = "settled"
  /\ current.op \in QuietOps
  /\ IF current.out.kind = "ok"
       THEN /\ customerInfo' = SetCustomerInfo(customerInfo, current.out.value)
            /\ UNCHANGED error
       ELSE /\ error' = QuietCatchError(current.out, error)
            /\ UNCHANGED customerInfo
  /\ current' = Return(QuietReturn(current.out))
  /\ isPremium' = IsPremiumOf(customerInfo')
  /\ memoInfo' = UseCallbackDeps(memoInfo, customerInfo')
  /\ UNCHANGED <<isInitialized, isLoading, offerings, initState, awaiting, uiState, outside>>

\* A checkEntitlement that caches the snapshot it answered against.
CheckEntitlement_Caching(entitlementId) ==
  /\ ~MicrotaskQueued
  /\ current' = [op |-> "checkEntitlement", caller |-> "app", st |-> "returned",
                 arg |-> entitlementId, pre |-> NoError, out |-> NotStarted,
                 ret |-> checkEntitlement(entitlementId)]
  /\ customerInfo' = IF memoInfo = Null THEN CustomerInfo({}) ELSE memoInfo
  /\ isPremium' = IsPremiumOf(customerInfo')
  /\ memoInfo' = UseCallbackDeps(memoInfo, customerInfo')
  /\ UNCHANGED <<isInitialized, isLoading, offerings, error, initState, awaiting, uiState, outside>>

\* A consumer calls checkEntitlement(entitlementId) of the rendered value:
\* a synchronous read that returns at once.
CheckEntitlement(entitlementId) ==
  /\ ~MicrotaskQueued
  /\ current' = [op |-> "checkEntitlement", caller |-> "app", st |-> "returned",
                 arg |-> entitlementId, pre |-> NoError, out |-> NotStarted,
                 ret |-> checkEntitlement(entitlementId)]
  /\ UNCHANGED <<ctxState, initState, awaiting, uiState, outside>>

\* The caller's await of the operation resumes with the returned value.
\* RestorePurchasesButton.handleRestore after await restorePurchases():
\* if (success && isPremium) 'Purchases Restored' else 'No Purchases Found',
\* catch 'Error'; isPremium is the one the handler closed over.
RestoreAlert(success, premium) ==
  IF success = "rejected" THEN "Error"
  ELSE IF success = "true" /\ premium THEN "Purchases Restored"
  ELSE "No Purchases Found"

\* In PaywallScreen's handlers that is setIsPurchasing(false), in
\* RestorePurchasesButton's handler the alert and finally { setIsRestoring(false) }.
CallerResume ==
  /\ current.st = "returned"
  /\ current' = Idle
  /\ alert' = IF current.caller = "RestorePurchasesButton"
                 THEN RestoreAlert(current.ret, handlerIsPremium) ELSE alert
  /\ isPurchasing' = IF current.caller = "PaywallScreen" THEN FALSE ELSE isPurchasing
  /\ isRestoring' =
       IF current.caller = "RestorePurchasesButton" THEN FALSE ELSE isRestoring
  /\ UNCHANGED <<ctxState, initState, awaiting, selectedPackage, handlerIsPremium,
                 outside>>

Start ==
  \/ \E pkg \in Packages : PurchaseStart(pkg)
  \/ RestoreStart
  \/ RefreshStart
  \/ \E u \in UserIds : LoginStart(u)
  \/ LogoutStart

Settle == \E call \in BagToSet(awaiting) : \E o \in InfoOutcomes : VendorSettle(call, o)

Resume ==
  \/ PurchaseResume
  \/ RestoreResume
  \/ QuietResume
  \/ CallerResume

Check == \E e \in EntitlementIds : CheckEntitlement(e)

Next == InitEffect \/ Start \/ Settle \/ Resume \/ Check

Spec == Init /\ [][Next]_vars

\* ------------------------------------------- the consumer components

\* PaywallScreen renders its cards and buttons: if (isLoading) it returns
\* the spinner alone.
PaywallRendered == ~isLoading

\* PaywallScreen: a package card is pressed, setSelectedPackage(pkg); the
\* cards are those of offerings?.current?.availablePackages || [].
SelectPackage(pkg) ==
  /\ ~MicrotaskQueued
  /\ PaywallRendered
  /\ offerings # Null
  /\ selectedPackage' = pkg
  /\ UNCHANGED <<ctxState, initState, awaiting, current, isPurchasing, isRestoring,
                 handlerIsPremium, alert, outside>>

\* PaywallScreen.handlePurchase, up to await purchasePackage(selectedPackage);
\* the button is disabled when !selectedPackage || isPurchasing.
PaywallPurchase ==
  /\ PaywallRendered
  /\ selectedPackage # NoPackage
  /\ ~isPurchasing
  /\ isPurchasing' = TRUE
  /\ StartLoadingBy("PaywallScreen", "purchasePackage", error)
  /\ UNCHANGED <<selectedPackage, isRestoring, handlerIsPremium, alert, outside>>

\* PaywallScreen.handleRestore, up to await restorePurchases(); its button
\* has no disabled prop.
PaywallRestore ==
  /\ PaywallRendered
  /\ isPurchasing' = TRUE
  /\ StartLoadingBy("PaywallScreen", "restorePurchases", NoError)
  /\ UNCHANGED <<selectedPackage, isRestoring, handlerIsPremium, alert, outside>>

\* RestorePurchasesButton.handleRestore, up to await restorePurchases(); the
\* button is disabled when isRestoring.
ButtonRestore ==
  /\ ~isRestoring
  /\ isRestoring' = TRUE
  /\ handlerIsPremium' = isPremium
  /\ StartLoadingBy("RestorePurchasesButton", "restorePurchases", NoError)
  /\ UNCHANGED <<selectedPackage, isPurchasing, alert, outside>>

Press ==
  \/ \E pkg \in Packages : SelectPackage(pkg)
  \/ PaywallPurchase
  \/ PaywallRestore
  \/ ButtonRestore

UIResume ==
  \/ PurchaseResume
  \/ RestoreResume
  \/ CallerResume

\* The purchase context driven by PaywallScreen and RestorePurchasesButton
\* alone.
UINext == InitEffect \/ Press \/ Settle \/ UIResume

UISpec == Init /\ [][UINext]_vars

\* The event loop runs every queued continuation.
FairSpec ==
  /\ Spec
  /\ WF_vars(Resume)
  /\ WF_vars(InitAfterInitialize)
  /\ WF_vars(InitAfterFetches)

\* ------------------------------------------ PaywallScreen price labels

\* The package-type tags of the vendor SDK.
PackageTypes ==
  {"UNKNOWN", "CUSTOM", "LIFETIME", "ANNUAL", "SIX_MONTH", "THREE_MONTH",
   "TWO_MONTH", "MONTHLY", "WEEKLY"}

\* Vendor price strings ("" stands for a product without a price string).
PriceStrings == {"$9.99", "9,99 EUR", ""}

\* The packages a card can show: identifier, packageType, product.priceString.
ShownPackages ==
  {[identifier |-> i, packageType |-> t, product |-> [priceString |-> p]] :
      i \in Packages, t \in PackageTypes, p \in PriceStrings}

\* A formatPrice without the LIFETIME case.
formatPrice_NoLifetime(pkg) ==
  CASE pkg.packageType = "ANNUAL" -> pkg.product.priceString \o "/year"
    [] pkg.packageType = "MONTHLY" -> pkg.product.priceString \o "/month"
    [] pkg.packageType = "WEEKLY" -> pkg.product.priceString \o "/week"
    [] OTHER -> pkg.product.priceString

\* formatPrice(pkg): switch (pkg.packageType) over pkg.product.priceString
formatPrice(pkg) ==
  CASE pkg.packageType = "ANNUAL" -> pkg.product.priceString \o "/year"
    [] pkg.packageType = "MONTHLY" -> pkg.product.priceString \o "/month"
    [] pkg.packageType = "WEEKLY" -> pkg.product.priceString \o "/week"
    [] pkg.packageType = "LIFETIME" -> pkg.product.priceString \o " one-time"
    [] OTHER -> pkg.product.priceString

\* A card for pkg is rendered.
PriceInit ==
  /\ ProviderInit
  /\ ChatInit
  /\ StorageIdle
  /\ hasLaunchPulseEnv = TRUE
  /\ shownPackage \in ShownPackages
  /\ priceLabels = <<>>

\* The card's <Text>{formatPrice(pkg)}</Text> is evaluated.
FormatPrice ==
  /\ shownPackage # Null
  /\ priceLabels = <<>>
  /\ priceLabels' = <<formatPrice(shownPackage)>>
  /\ UNCHANGED <<providerState, shownPackage, chatState, storageState>>

PriceNext == FormatPrice

PriceSpec == PriceInit /\ [][PriceNext]_vars

\* ------------------------------------------------------------ useChat

\* Message contents: the user's text, and the texts the AI service returns
\* to send (<<>> stands for a missing content, which becomes '').
UserContents == {<<0>>}

AssistantContents == {<<>>, <<0>>}

\* A chunk of the stream of request r.
Chunk(r) == <<r>>

Message(role, content) == [role |-> role, content |-> content]

\* The first unused request.
FreeRequest(r) ==
  /\ chatRequests[r] = NoRequest
  /\ \A q \in 1..(r - 1) : chatRequests[q] # NoRequest

\* send(content), up to await ai.chat.completions.create(...);
\* if (isLoading) return.
Send(content) ==
  /\ ~chatIsLoading
  /\ Len(messages) < MaxMessages
  /\ messages' = Append(messages, Message("user", content))
  /\ chatIsLoading' = TRUE
  /\ chatError' = NoError
  /\ \E r \in 1..MaxRequests :
       /\ FreeRequest(r)
       /\ chatRequests' = [chatRequests EXCEPT ![r] = [NoRequest EXCEPT !.kind = "send"]]
  /\ UNCHANGED <<providerState, labelState, storageState, isStreaming, streamingContent, shouldStopRef>>

\* send resumes with the response: try / finally
SendResponse(r, content) ==
  /\ chatRequests[r].kind = "send"
  /\ messages' = Append(messages, Message("assistant", content))
  /\ chatIsLoading' = FALSE
  /\ chatRequests' = [chatRequests EXCEPT ![r] = NoRequest]
  /\ UNCHANGED <<providerState, labelState, storageState, isStreaming, chatError, streamingContent,
                 shouldStopRef>>

\* send resumes with a rejection: catch / finally
SendFails(r) ==
  /\ chatRequests[r].kind = "send"
  /\ chatError' = "Error"
  /\ chatIsLoading' = FALSE
  /\ chatRequests' = [chatRequests EXCEPT ![r] = NoRequest]
  /\ UNCHANGED <<providerState, labelState, storageState, messages, isStreaming, streamingContent,
                 shouldStopRef>>

\* sendStream(content), up to the first await of the for await loop;
\* if (isLoading || isStreaming) return.
SendStream(content) ==
  /\ ~(chatIsLoading \/ isStreaming)
  /\ Len(messages) < MaxMessages
  /\ messages' = Append(messages, Message("user", content))
  /\ chatIsLoading' = TRUE
  /\ isStreaming' = TRUE
  /\ streamingContent' = <<>>
  /\ chatError' = NoError
  /\ shouldStopRef' = FALSE
  /\ \E r \in 1..MaxRequests :
       /\ FreeRequest(r)
       /\ chatRequests' = [chatRequests EXCEPT ![r] = [NoRequest EXCEPT !.kind = "stream"]]
  /\ UNCHANGED <<providerState, labelState, storageState>>

\* sendStream after its loop: the assistant message, then finally.
StreamFinish(r) ==
  /\ messages' = Append(messages, Message("assistant", chatRequests[r].full))
  /\ streamingContent' = <<>>
  /\ chatIsLoading' = FALSE
  /\ isStreaming' = FALSE
  /\ shouldStopRef' = FALSE
  /\ chatRequests' = [chatRequests EXCEPT ![r] = NoRequest]
  /\ UNCHANGED chatError

\* The stream of request r delivers a chunk: the loop body runs,
\* if (shouldStopRef.current) break; else the chunk is appended.
StreamChunk(r) ==
  /\ chatRequests[r].kind = "stream"
  /\ Len(chatRequests[r].full) < MaxChunks
  /\ IF shouldStopRef
       THEN StreamFinish(r)
       ELSE /\ chatRequests' = [chatRequests EXCEPT
                                  ![r].full = chatRequests[r].full \o Chunk(r)]
            /\ streamingContent' = chatRequests'[r].full
            /\ UNCHANGED <<messages, chatIsLoading, isStreaming, chatError, shouldStopRef>>
  /\ UNCHANGED <<providerState, labelState, storageState>>

\* The stream of request r ends: the loop is left.
StreamEnd(r) ==
  /\ chatRequests[r].kind = "stream"
  /\ StreamFinish(r)
  /\ UNCHANGED <<providerState, labelState, storageState>>

\* The stream of request r throws: catch / finally
StreamFails(r) ==
  /\ chatRequests[r].kind = "stream"
  /\ chatError' = "Error"
  /\ chatIsLoading' = FALSE
  /\ isStreaming' = FALSE
  /\ shouldStopRef' = FALSE
  /\ chatRequests' = [chatRequests EXCEPT ![r] = NoRequest]
  /\ UNCHANGED <<providerState, labelState, storageState, messages, streamingContent>>

\* stop(); every request in progress is marked as stopped.
Stop ==
  /\ shouldStopRef' = TRUE
  /\ isStreaming' = FALSE
  /\ chatIsLoading' = FALSE
  /\ chatRequests' = [r \in 1..MaxRequests |->
                        IF chatRequests[r].kind = "none" THEN chatRequests[r]
                        ELSE [chatRequests[r] EXCEPT !.stopped = TRUE]]
  /\ UNCHANGED <<providerState, labelState, storageState, messages, chatError, streamingContent>>

\* clear(), without systemPrompt
Clear ==
  /\ messages' = <<>>
  /\ chatError' = NoError
  /\ streamingContent' = <<>>
  /\ UNCHANGED <<providerState, labelState, storageState, chatIsLoading, isStreaming, shouldStopRef,
                 chatRequests>>

ChatNext ==
  \/ \E c \in UserContents : Send(c)
  \/ \E r \in 1..MaxRequests : \E c \in AssistantContents : SendResponse(r, c)
  \/ \E r \in 1..MaxRequests : SendFails(r)
  \/ \E c \in UserContents : SendStream(c)
  \/ \E r \in 1..MaxRequests : StreamChunk(r)
  \/ \E r \in 1..MaxRequests : StreamEnd(r)
  \/ \E r \in 1..MaxRequests : StreamFails(r)
  \/ Stop
  \/ Clear

ChatSpec == Init /\ [][ChatNext]_vars

\* --------------------------------------------------------- storage.ts

UploadOps == {"uploadUri", "uploadBlob"}

\* HTTP statuses the PUT to the presigned URL may return.
PutStatuses == {199, 200, 204, 299, 300, 403, 500}

\* How the PUT settles: a response with a status, or a rejection.
PutOutcomes == {[kind |-> "status", status |-> n] : n \in PutStatuses}
                 \cup {[kind |-> "rejected"]}

\* How a request to the storage proxy settles once it was sent: "ok", a
\* StorageError with the code of data.error ("undefined" when the proxy sent
\* none), or the rejection of fetch or response.json().
ProxyOutcomes == {"ok", "QUOTA_EXCEEDED", "undefined", "TypeError"}

\* How FileSystem.getInfoAsync(uri) settles.
InfoResults == {"exists", "missing", "rejected"}

\* A PUT check that takes status 300 for a success.
PutSucceeded_Upto300(op, res) ==
  ~(res.status < 200 \/ res.status > 300)

\* uploadUri: !(uploadResult.status < 200 || uploadResult.status >= 300);
\* uploadBlob: uploadResponse.ok
PutSucceeded(op, res) ==
  IF op = "uploadUri"
    THEN ~(res.status < 200 \/ res.status >= 300)
    ELSE res.status \in 200..299

\* The call ends: its promise resolves ("ok") or rejects with result.
Finished(result) == [upload EXCEPT !.pc = "done", !.result = result]

\* storageRequest(path, params), up to its await fetch(...): without the
\* environment it throws STORAGE_NOT_CONFIGURED and sends nothing.
StorageRequest(path) ==
  IF ~hasLaunchPulseEnv
    THEN /\ upload' = Finished("STORAGE_NOT_CONFIGURED")
         /\ UNCHANGED storageLog
    ELSE /\ upload' = [upload EXCEPT !.pc = path]
         /\ storageLog' = Append(storageLog, path)

\* storage.uploadUri(uri, ...), up to await FileSystem.getInfoAsync(uri)
UploadUri ==
  /\ upload.pc \in {"idle", "done"}
  /\ upload' = [op |-> "uploadUri", pc |-> "getInfo", result |-> "none"]
  /\ storageLog' = <<>>
  /\ putResult' = NoPut
  /\ UNCHANGED <<providerState, labelState, chatState, hasLaunchPulseEnv>>

\* uploadUri resumes with the file info, up to the 'upload-url' request.
GetInfoSettle(info) ==
  /\ upload.pc = "getInfo"
  /\ IF info = "rejected"
       THEN upload' = Finished("FileSystemError") /\ UNCHANGED storageLog
       ELSE IF info = "missing"
         THEN upload' = Finished("FILE_NOT_FOUND") /\ UNCHANGED storageLog
         ELSE StorageRequest("upload-url")
  /\ UNCHANGED <<providerState, labelState, chatState, hasLaunchPulseEnv, putResult>>

\* storage.uploadBlob(blob, ...), up to the 'upload-url' request.
UploadBlob ==
  /\ upload.pc \in {"idle", "done"}
  /\ IF ~hasLaunchPulseEnv
       THEN upload' = [op |-> "uploadBlob", pc |-> "done",
                       result |-> "STORAGE_NOT_CONFIGURED"]
            /\ storageLog' = <<>>
       ELSE upload' = [op |-> "uploadBlob", pc |-> "upload-url", result |-> "none"]
            /\ storageLog' = <<"upload-url">>
  /\ putResult' = NoPut
  /\ UNCHANGED <<providerState, labelState, chatState, hasLaunchPulseEnv>>

\* The 'upload-url' request settles; with the presigned URL the PUT is sent.
UploadUrlSettle(outcome) ==
  /\ upload.pc = "upload-url"
  /\ IF outcome = "ok"
       THEN /\ upload' = [upload EXCEPT !.pc = "put"]
            /\ storageLog' = Append(storageLog, "PUT")
       ELSE /\ upload' = Finished(outcome)
            /\ UNCHANGED storageLog
  /\ UNCHANGED <<providerState, labelState, chatState, hasLaunchPulseEnv, putResult>>

\* The PUT settles; after a successful status the 'confirm-upload' request.
PutSettle(res) ==
  /\ upload.pc = "put"
  /\ putResult' = res
  /\ IF res.kind = "rejected"
       THEN upload' = Finished("TypeError") /\ UNCHANGED storageLog
       ELSE IF ~PutSucceeded(upload.op, res)
         THEN upload' = Finished("UPLOAD_FAILED") /\ UNCHANGED storageLog
         ELSE StorageRequest("confirm-upload")
  /\ UNCHANGED <<providerState, labelState, chatState, hasLaunchPulseEnv>>

\* The 'confirm-upload' request settles: return { key, size, url } or throw.
ConfirmSettle(outcome) ==
  /\ upload.pc = "confirm-upload"
  /\ upload' = Finished(outcome)
  /\ UNCHANGED <<providerState, labelState, chatState, hasLaunchPulseEnv, storageLog,
                 putResult>>

StorageInit ==
  /\ ProviderInit
  /\ LabelIdle
  /\ ChatInit
  /\ StorageIdle
  /\ hasLaunchPulseEnv \in BOOLEAN

StorageNext ==
  \/ UploadUri
  \/ \E i \in InfoResults : GetInfoSettle(i)
  \/ UploadBlob
  \/ \E o \in ProxyOutcomes : UploadUrlSettle(o)
  \/ \E res \in PutOutcomes : PutSettle(res)
  \/ \E o \in ProxyOutcomes : ConfirmSettle(o)

StorageSpec == StorageInit /\ [][StorageNext]_vars

\* ------------------------------------------------------ step predicates

LoadingOps == {"purchasePackage", "restorePurchases"}

\* This step is the start of a call of op: one more call awaits.
Starts(op) ==
  /\ BagCardinality(awaiting') = BagCardinality(awaiting) + 1
  /\ \E call \in BagToSet(awaiting') :
       /\ call.op = op
       /\ CopiesIn(call, awaiting') = CopiesIn(call, awaiting) + 1

\* This step is the resumption of a call of op, up to its return.
Finishes(op) ==
  /\ current.st = "settled"
  /\ current.op = op
  /\ current'.st = "returned"

\* A vendor failure flagged as a user cancellation.
Cancelled(out) == out.kind = "error" /\ out.userCancelled

\* initialize, purchasePackage or restorePurchases is in flight.
InFlight ==
  \/ pcInit # "done"
  \/ \E call \in BagToSet(awaiting) : call.op \in LoadingOps
  \/ current.st = "settled" /\ current.op \in LoadingOps

\* This step ends the init effect.
InitEnds == pcInit # "done" /\ pcInit' = "done"

\* ---------------------------------------------------------------- claims

\* C1: isPremium is true exactly when the configured premium identifier is
\* a key of the active entitlements of the customerInfo held now, and false
\* when no customerInfo is held.
C1_PremiumOfCurrentInfo ==
  isPremium = (customerInfo # Null /\ premiumEntitlementId \in customerInfo.active)

\* C1 witness: a vendor call has just replaced customerInfo by a snapshot
\* with the premium entitlement.
C1_Witness ==
  /\ current.st = "returned"
  /\ current.out.kind = "ok"
  /\ customerInfo = current.out.value
  /\ customerInfo = CustomerInfo({"premium"})
  /\ isPremium

\* C2 as stated: loading is true exactly when initialize, purchasePackage
\* or restorePurchases is in flight, in every reachable state.
C2_LoadingIffInFlight == isLoading <=> InFlight

\* C2 amended: loading is false whenever none of the three is in flight;
\* every start of purchasePackage or restorePurchases sets it, every finish
\* of init, purchasePackage or restorePurchases clears it, also while
\* another one is still in flight, and no other step changes it.
C2_LoadingIsLastWrite ==
  /\ [](~InFlight => ~isLoading)
  /\ [][/\ (\E op \in LoadingOps : Starts(op)) => isLoading'
        /\ ((\E op \in LoadingOps : Finishes(op)) \/ InitEnds) => ~isLoading'
        /\ (~(\E op \in LoadingOps : Starts(op) \/ Finishes(op)) /\ ~InitEnds)
              => isLoading' = isLoading]_vars

\* C2 witness: an operation has finished and cleared loading while another
\* purchase or restore is still awaiting its vendor call.
C2_Witness ==
  /\ current.st = "returned"
  /\ current.op \in LoadingOps
  /\ \E call \in BagToSet(awaiting) : call.op \in LoadingOps
  /\ ~isLoading

\* C3 as stated: when Purchases.configure fails, init ends with
\* isInitialized false and error 'Failed to initialize purchases', and
\* isInitialized becomes true only when configure did not fail (without an
\* API key there is no configure call to fail).
C3_InitFailureSurfaced ==
  /\ [][(pcInit = "configured" /\ configure = "rejected")
          => (pcInit' = "done" /\ ~isInitialized'
              /\ error' = "Failed to initialize purchases")]_vars
  /\ [][(~isInitialized /\ isInitialized') => configure \in {"fulfilled", "none"}]_vars

\* C4: when init resumes after both fetches, each fetch contributes its own
\* value or null independently of the other, error is not written, loading
\* is cleared; with offerings fetched and the customer-info fetch failed the
\* state is initialized, offerings set, customerInfo null, not premium.
C4_FetchesIsolated ==
  [][(pcInit = "fetching" /\ pcInit' = "done") =>
       /\ offerings' = (IF offFetch.kind = "ok" THEN offFetch.value ELSE Null)
       /\ customerInfo' = (IF ciFetch.kind = "ok" THEN ciFetch.value ELSE Null)
       /\ error' = error
       /\ ~isLoading'
       /\ isInitialized'
       /\ (ciFetch.kind = "error" => ~isPremium')]_vars

\* C4 witness: init is over, the offerings were fetched and the
\* customer-info fetch failed.
C4_Witness ==
  /\ pcInit = "done"
  /\ isInitialized
  /\ offerings \in Catalogs
  /\ customerInfo = Null
  /\ ~isLoading
  /\ ~isPremium

\* C5: every finish of purchasePackage or restorePurchases leaves loading
\* false, whatever the vendor outcome, and a call whose vendor call has
\* settled does finish, with loading released.
C5_LoadingReleased ==
  /\ [][\A op \in LoadingOps : Finishes(op) => ~isLoading']_vars
  /\ (current.st = "settled" /\ current.op \in LoadingOps)
        ~> (current.st = "returned" /\ current.op \in LoadingOps /\ ~isLoading)

\* C5 witness: a purchase has returned after a user cancellation, loading
\* released.
C5_Witness ==
  /\ current.st = "returned"
  /\ current.op = "purchasePackage"
  /\ Cancelled(current.out)
  /\ ~isLoading

\* C6 as stated: after a purchasePackage whose vendor call failed with a
\* user cancellation, error is what it was immediately before the call.
C6_CancelKeepsPreCallError ==
  [][(Finishes("purchasePackage") /\ Cancelled(current.out))
       => error' = current.pre]_vars

\* C6 amended: the start of purchasePackage clears error, and the return
\* after a user cancellation writes nothing to it: error after the call is
\* error as it was when the vendor call failed.
C6_CancelWritesNoError ==
  /\ [][Starts("purchasePackage") => error' = NoError]_vars
  /\ [][(Finishes("purchasePackage") /\ Cancelled(current.out))
          => error' = error]_vars

\* C6 witness: a purchase that was started with an error populated has
\* returned after a user cancellation.
C6_Witness ==
  /\ current.st = "returned"
  /\ current.op = "purchasePackage"
  /\ Cancelled(current.out)
  /\ current.pre # NoError

\* C7: when the vendor purchase call fails, purchasePackage returns false
\* and leaves customerInfo; a user cancellation leaves error, any other
\* failure sets error to the vendor message, or to 'Purchase failed' when
\* there is none.
C7_PurchaseFailure ==
  [][(Finishes("purchasePackage") /\ current.out.kind = "error") =>
       /\ current'.ret = "false"
       /\ customerInfo' = customerInfo
       /\ error' = (IF current.out.userCancelled THEN error
                    ELSE IF current.out.message = "" THEN "Purchase failed"
                    ELSE current.out.message)]_vars

\* C7 witness: a purchase has returned false after a vendor failure with a
\* message, which is not a cancellation.
C7_Witness ==
  /\ current.st = "returned"
  /\ current.op = "purchasePackage"
  /\ current.out.kind = "error"
  /\ ~current.out.userCancelled
  /\ current.out.message # ""
  /\ current.ret = "false"
  /\ error = current.out.message

\* C8 as stated: every start of a purchase or restore clears error, error
\* is absent after an attempt that finishes successfully, and when error is
\* populated after an attempt finishes, that attempt failed.
C8_ErrorOfThisAttempt ==
  /\ [][\A op \in LoadingOps : Starts(op) => error' = NoError]_vars
  /\ [][\A op \in LoadingOps :
          (Finishes(op) /\ current.out.kind = "ok") => error' = NoError]_vars
  /\ [][\A op \in LoadingOps :
          (Finishes(op) /\ error' # NoError) => current.out.kind = "error"]_vars

\* C8 amended: every start of a purchase or restore clears error; a
\* successful finish does not write error; and error is populated only by
\* the finish of a failed attempt (for purchasePackage: not a cancellation),
\* with that attempt's vendor message or fallback.
C8_ErrorWrittenOnFailureOnly ==
  /\ [][\A op \in LoadingOps : Starts(op) => error' = NoError]_vars
  /\ [][\A op \in LoadingOps :
          (Finishes(op) /\ current.out.kind = "ok") => error' = error]_vars
  /\ [][(error' # error /\ error' # NoError) =>
          \E op \in LoadingOps :
            /\ Finishes(op)
            /\ current.out.kind = "error"
            /\ op = "purchasePackage" => ~current.out.userCancelled
            /\ error' = (IF current.out.message # "" THEN current.out.message
                         ELSE IF op = "purchasePackage" THEN "Purchase failed"
                         ELSE "Failed to restore purchases")]_vars

\* C8 witness: an attempt has finished successfully while error holds the
\* failure of an attempt that overlapped it.
C8_Witness ==
  /\ current.st = "returned"
  /\ current.op \in LoadingOps
  /\ current.out.kind = "ok"
  /\ error # NoError

\* C9: any failure of the vendor restore call, a user cancellation
\* included, makes restorePurchases return false and sets error to the
\* vendor message, or to 'Failed to restore purchases' when there is none.
C9_RestoreFailure ==
  [][(Finishes("restorePurchases") /\ current.out.kind = "error") =>
       /\ current'.ret = "false"
       /\ error' = (IF current.out.message = "" THEN "Failed to restore purchases"
                    ELSE current.out.message)]_vars

\* C9 witness: a restore has returned false after a failure flagged
\* userCancelled, and error is populated.
C9_Witness ==
  /\ current.st = "returned"
  /\ current.op = "restorePurchases"
  /\ Cancelled(current.out)
  /\ current.ret = "false"
  /\ error # NoError

\* C10: when the vendor purchase call succeeds, customerInfo becomes
\* exactly the returned snapshot, purchasePackage returns true, and
\* isPremium is true if the snapshot has the premium entitlement.
C10_PurchaseSuccessReplaces ==
  [][(Finishes("purchasePackage") /\ current.out.kind = "ok") =>
       /\ customerInfo' = current.out.value
       /\ current'.ret = "true"
       /\ (premiumEntitlementId \in current.out.value.active => isPremium')]_vars

\* C10 witness: a purchase has returned true with a snapshot that has the
\* premium entitlement.
C10_Witness ==
  /\ current.st = "returned"
  /\ current.op = "purchasePackage"
  /\ current.ret = "true"
  /\ current.out.kind = "ok"
  /\ premiumEntitlementId \in current.out.value.active
  /\ customerInfo = current.out.value
  /\ isPremium

\* C11: restorePurchases returns true exactly when the vendor restore call
\* did not throw, whatever the returned snapshot holds; a successful restore
\* writes no error and stores the snapshot, so a snapshot without active
\* entitlements gives return value true with isPremium false.
C11_RestoreSuccessIsVendorSuccess ==
  [][Finishes("restorePurchases") =>
       /\ (current'.ret = "true") <=> (current.out.kind = "ok")
       /\ current.out.kind = "ok" =>
            /\ error' = error
            /\ customerInfo' = current.out.value
            /\ (current.out.value.active = {} => ~isPremium')]_vars

\* C11 witness: a restore has returned true with a snapshot that has no
\* active entitlement; no error, not premium.
C11_Witness ==
  /\ current.st = "returned"
  /\ current.op = "restorePurchases"
  /\ current.out.kind = "ok"
  /\ current.out.value.active = {}
  /\ current.ret = "true"
  /\ error = NoError
  /\ ~isPremium

\* C12: no step of refreshCustomerInfo, login or logout writes error,
\* neither its start nor its return, whether the vendor call succeeded or
\* failed.
C12_QuietOpsKeepError ==
  [][\A op \in QuietOps : (Starts(op) \/ Finishes(op)) => error' = error]_vars

\* C12 witness: a login has returned after a vendor failure while error
\* was populated, and error is still populated.
C12_Witness ==
  /\ current.st = "returned"
  /\ current.op = "login"
  /\ current.out.kind = "error"
  /\ error # NoError

\* C13: a failed refreshCustomerInfo, login or logout leaves customerInfo
\* and isPremium; on every outcome the start and the return of these
\* operations leave isLoading, isInitialized and offerings.
C13_QuietOpsFrame ==
  [][\A op \in QuietOps :
       /\ (Finishes(op) /\ current.out.kind = "error")
            => (customerInfo' = customerInfo /\ isPremium' = isPremium)
       /\ (Starts(op) \/ Finishes(op))
            => UNCHANGED <<isLoading, isInitialized, offerings>>]_vars

\* C13 witness: a refresh has returned after a vendor failure while a
\* snapshot is held and loading is set by another operation.
C13_Witness ==
  /\ current.st = "returned"
  /\ current.op = "refreshCustomerInfo"
  /\ current.out.kind = "error"
  /\ customerInfo # Null
  /\ isLoading

\* C14: a call of purchasePackage or restorePurchases returns true or
\* false, a call of refreshCustomerInfo, login or logout returns void, for
\* every vendor outcome; none rejects, and the init effect only ever ends.
C14_NothingRethrown ==
  /\ pcInit \in {"configuring", "configured", "fetching", "done"}
  /\ current.st = "returned" =>
       /\ current.op \in LoadingOps => current.ret \in {"true", "false"}
       /\ current.op \in QuietOps => current.ret = "void"

\* C14 witness: a logout has returned void after a vendor failure.
C14_Witness ==
  /\ current.st = "returned"
  /\ current.op = "logout"
  /\ current.out.kind = "error"
  /\ current.ret = "void"

\* C15: a call of checkEntitlement(E) returns true exactly when E is a key
\* of the active entitlements of the customerInfo held at the call, and
\* false when none is held; this includes every call made after an
\* operation has replaced customerInfo.
C15_CheckAgainstHeldInfo ==
  (current.op = "checkEntitlement") =>
    /\ current.st = "returned"
    /\ (current.ret = "true") <=>
         (customerInfo # Null /\ current.arg \in customerInfo.active)
    /\ (current.ret = "false") <=>
         (customerInfo = Null \/ current.arg \notin customerInfo.active)

\* C15 witness: after the held snapshot was replaced (init stored a first
\* one, a later operation another), checkEntitlement("pro") returned true
\* for a held snapshot whose only active entitlement is "pro".
C15_Witness ==
  /\ current.op = "checkEntitlement"
  /\ current.arg = "pro"
  /\ current.ret = "true"
  /\ customerInfo = CustomerInfo({"pro"})
  /\ pcInit = "done"

\* C16: a call of checkEntitlement changes none of isInitialized, isLoading,
\* offerings, customerInfo, error (nor isPremium), and the same call made
\* again on the state it left returns the same value.
C16_CheckReadsOnly ==
  [][(current'.op = "checkEntitlement" /\ current.op # "checkEntitlement") =>
       /\ UNCHANGED <<isInitialized, isLoading, offerings, customerInfo, error,
                      isPremium>>
       /\ \E e \in EntitlementIds :
            /\ e = current'.arg
            /\ current'.ret = checkEntitlement(e)
            /\ current'.ret = checkEntitlement(e)']_vars

\* C16 witness: checkEntitlement has returned true while a snapshot and
\* offerings are held, an error is recorded and another call awaits its
\* vendor call.
C16_Witness ==
  /\ current.op = "checkEntitlement"
  /\ current.ret = "true"
  /\ customerInfo # Null
  /\ offerings # Null
  /\ error # NoError
  /\ awaiting # EmptyBag

\* A call of a context operation can be started now: no continuation is
\* queued and the bound on pending calls is not reached.
CanCall == ~MicrotaskQueued /\ BagCardinality(awaiting) < MaxCalls

\* C18: purchasePackage and restorePurchases start whenever they are called,
\* also while loading is set and other calls are in flight; every purchase or restore whose vendor call succeeded
\* stores its snapshot when it resumes, a failed one stores nothing, and
\* customerInfo changes in no other step than a successful resumption or
\* the end of init: customerInfo is the snapshot of the last successful
\* completion, whatever the order of the starts.
C18_LastWriterWins ==
  /\ [](CanCall => (ENABLED RestoreStart /\ \A pkg \in Packages : ENABLED PurchaseStart(pkg)))
  /\ [][/\ \A op \in LoadingOps : Finishes(op) =>
             customerInfo' = IF current.out.kind = "ok"
                               THEN current.out.value ELSE customerInfo
        /\ customerInfo' # customerInfo =>
             \/ InitEnds
             \/ \E op \in LoadingOps \cup QuietOps :
                  Finishes(op) /\ current.out.kind = "ok"]_vars

\* C18 witness: two overlapping calls, a purchase and a restore; the restore
\* has stored its snapshot while the purchase still awaits its vendor call.
C18_Witness ==
  /\ current.st = "returned"
  /\ current.op = "restorePurchases"
  /\ current.out.kind = "ok"
  /\ customerInfo = current.out.value
  /\ \E call \in BagToSet(awaiting) : call.op = "purchasePackage"

\* C19: whenever a fetch of init has been started, isInitialized is true;
\* the two fetches are started together, so neither has settled while the
\* other is not started; the init effect writes isLoading only in its last
\* step, to false, and that step requires both fetches settled.
C19_InitOrder ==
  /\ []((offFetch # NotStarted \/ ciFetch # NotStarted) => isInitialized)
  /\ []((offFetch = NotStarted) <=> (ciFetch = NotStarted))
  /\ [][/\ InitEnds =>
             /\ offFetch.kind \in {"ok", "error"}
             /\ ciFetch.kind \in {"ok", "error"}
             /\ isLoading' = FALSE
        /\ (initState' # initState /\ ~InitEnds) => isLoading' = isLoading]_vars

\* C19 witness: the customer-info fetch has settled, the offerings fetch is
\* still pending, and loading is still true with isInitialized true.
C19_Witness ==
  /\ pcInit = "fetching"
  /\ offFetch = Pending
  /\ ciFetch.kind = "ok"
  /\ isInitialized
  /\ isLoading

\* C20: the offerings fetch is issued by init only, init runs once, and
\* offerings changes in no other step than the end of init: no step of
\* purchasePackage, restorePurchases, refreshCustomerInfo, login, logout or
\* checkEntitlement changes it.
C20_OfferingsOnlyAtInit ==
  /\ [][offerings' # offerings => InitEnds]_vars
  /\ [][(offFetch' = Pending /\ offFetch # Pending) => pcInit = "configured"]_vars
  /\ [][pcInit = "done" => (pcInit' = "done" /\ offFetch' = NotStarted)]_vars

\* C20 witness: init ended without offerings (its fetch failed) and a later
\* restore succeeded: offerings is still null.
C20_Witness ==
  /\ pcInit = "done"
  /\ offerings = Null
  /\ isInitialized
  /\ current.st = "returned"
  /\ current.op = "restorePurchases"
  /\ current.out.kind = "ok"

\* initialize, purchasePackage and restorePurchases calls in flight.
InFlightCount ==
  (IF pcInit # "done" THEN 1 ELSE 0)
  + BagCardinality([call \in {c \in BagToSet(awaiting) : c.op \in LoadingOps}
                      |-> CopiesIn(call, awaiting)])
  + (IF current.st = "settled" /\ current.op \in LoadingOps THEN 1 ELSE 0)

\* C17 as stated: PaywallScreen and RestorePurchasesButton start
\* purchasePackage or restorePurchases only while isLoading is false, so
\* at most one of initialize, purchasePackage, restorePurchases is in
\* flight in every reachable state.
C17_UIGuardsOnLoading ==
  /\ [][\A op \in LoadingOps : Starts(op) => ~isLoading]_vars
  /\ [](InFlightCount <= 1)

\* C21: a vendor call is issued only by the synchronous start of an
\* invocation: the continuation of a purchasePackage, restorePurchases,
\* refreshCustomerInfo, login or logout call returns to its caller without
\* issuing a vendor call, whatever the outcome, and a returned call leaves
\* with its caller; init awaits Purchases.configure once and starts each of
\* its fetches once.
C21_NoRetry ==
  /\ [][\A op \in LoadingOps \cup QuietOps :
          (current.st = "settled" /\ current.op = op) =>
             /\ Finishes(op)
             /\ awaiting' = awaiting]_vars
  /\ [][BagCardinality(awaiting') > BagCardinality(awaiting) =>
          (current = Idle /\ current' = Idle)]_vars
  /\ [][(configure \in {"fulfilled", "rejected", "awaited"}) =>
          (configure' \notin {"pending"})]_vars
  /\ [][(offFetch.kind \in {"ok", "error"} => offFetch' # Pending)
        /\ (ciFetch.kind \in {"ok", "error"} => ciFetch' # Pending)
        /\ (pcInit = "done" => UNCHANGED initState)]_vars

\* C21 witness: a purchase whose vendor call failed without a cancellation
\* has returned false and no vendor call is pending.
C21_Witness ==
  /\ current.st = "returned"
  /\ current.op = "purchasePackage"
  /\ current.out.kind = "error"
  /\ ~current.out.userCancelled
  /\ current.ret = "false"
  /\ awaiting = EmptyBag

\* C22: the label formatPrice returns for a package is the vendor price
\* string followed by " one-time" for LIFETIME, "/year" for ANNUAL, "/month"
\* for MONTHLY, "/week" for WEEKLY and by nothing for every other package
\* type; it depends on nothing else of the package (two packages of the
\* same type and price string get the same label).
C22_PriceLabel ==
  LET suffix(t) == IF t = "LIFETIME" THEN " one-time"
                   ELSE IF t = "ANNUAL" THEN "/year"
                   ELSE IF t = "MONTHLY" THEN "/month"
                   ELSE IF t = "WEEKLY" THEN "/week"
                   ELSE ""
  IN
  priceLabels # <<>> =>
    /\ Len(priceLabels) = 1
    /\ priceLabels[1] =
         shownPackage.product.priceString \o suffix(shownPackage.packageType)
    /\ \A other \in ShownPackages :
         (/\ other.packageType = shownPackage.packageType
          /\ other.product.priceString = shownPackage.product.priceString)
           => formatPrice(other) = priceLabels[1]

\* C22 witness: a LIFETIME package priced "$9.99" has been labelled
\* "$9.99 one-time".
C22_Witness ==
  /\ shownPackage # Null
  /\ shownPackage.packageType = "LIFETIME"
  /\ priceLabels = <<"$9.99 one-time">>

\* C23 as stated: when the restore RestorePurchasesButton awaited returns
\* true, the alert it shows is 'Purchases Restored' if the snapshot that
\* restore produced holds the premium entitlement, whether or not the user
\* was premium before, and 'No Purchases Found' if the snapshot lacks it.
C23_AlertOfRestoredSnapshot ==
  [][(/\ current.st = "returned"
      /\ current.caller = "RestorePurchasesButton"
      /\ current.ret = "true"
      /\ current' = Idle)
       => alert' = IF HasActive(current.out.value, premiumEntitlementId)
                     THEN "Purchases Restored" ELSE "No Purchases Found"]_vars

\* The useChat requests in progress.
RequestsInProgress == {r \in 1..MaxRequests : chatRequests[r].kind # "none"}

\* C24 as stated: isLoading is true whenever a send or sendStream request
\* is in progress, and at most one request is in progress, in every state
\* that send, sendStream, stop and clear can reach.
C24_OneChatRequest ==
  /\ RequestsInProgress # {} => chatIsLoading
  /\ Cardinality(RequestsInProgress) <= 1

\* C25 as stated: once stop() was called while a stream was in progress,
\* that stream appends no further chunk, neither to its content (the
\* assistant message it will add) nor to streamingContent.
C25_StoppedStreamAppendsNothing ==
  [][\A r \in 1..MaxRequests :
       (chatRequests[r].kind = "stream" /\ chatRequests[r].stopped) =>
          /\ chatRequests'[r].kind = "stream" =>
               chatRequests'[r].full = chatRequests[r].full
          /\ streamingContent' # streamingContent =>
               \A i \in 1..Len(streamingContent') : streamingContent'[i] # r]_vars

\* The requests of an upload in their order.
UploadSteps == <<"upload-url", "PUT", "confirm-upload">>

\* The upload sent its requests in the order upload-url, PUT, confirm-upload,
\* and confirm-upload only after a PUT that returned a 2xx status.
UploadOrder ==
  /\ Len(storageLog) <= 3
  /\ \A i \in 1..Len(storageLog) : storageLog[i] = UploadSteps[i]
  /\ Len(storageLog) = 3 =>
       (putResult.kind = "status" /\ putResult.status \in 200..299)

\* C26 as stated: the order above; a failed PUT (a status outside 2xx or
\* no response at all) fails the upload with UPLOAD_FAILED and without a
\* confirm; without configuration the upload fails with
\* STORAGE_NOT_CONFIGURED and without PUT or confirm.
C26_UploadProtocol ==
  /\ UploadOrder
  /\ (putResult.kind = "rejected" \/
      (putResult.kind = "status" /\ putResult.status \notin 200..299))
       => (upload.pc = "done" /\ upload.result = "UPLOAD_FAILED" /\ Len(storageLog) = 2)
  /\ (~hasLaunchPulseEnv /\ upload.pc = "done")
       => (upload.result = "STORAGE_NOT_CONFIGURED" /\ storageLog = <<>>)

\* C26 amended: the order above; a PUT that returned a status outside 2xx
\* fails the upload with UPLOAD_FAILED, a PUT that was rejected fails it
\* with that rejection, both without a confirm; without configuration no
\* request is sent at all and the upload fails with STORAGE_NOT_CONFIGURED,
\* except an uploadUri whose file lookup failed first (FILE_NOT_FOUND, or
\* the lookup's own rejection).
C26_UploadProtocolAmended ==
  /\ UploadOrder
  /\ (putResult.kind = "status" /\ putResult.status \notin 200..299)
       => (upload.pc = "done" /\ upload.result = "UPLOAD_FAILED" /\ Len(storageLog) = 2)
  /\ putResult.kind = "rejected"
       => (upload.pc = "done" /\ upload.result = "TypeError" /\ Len(storageLog) = 2)
  /\ ~hasLaunchPulseEnv =>
       /\ storageLog = <<>>
       /\ upload.pc \in {"idle", "getInfo", "done"}
       /\ upload.pc = "done" =>
            \/ upload.result = "STORAGE_NOT_CONFIGURED"
            \/ /\ upload.op = "uploadUri"
               /\ upload.result \in {"FILE_NOT_FOUND", "FileSystemError"}

\* C26 witness: an uploadUri whose PUT returned status 300 has failed with
\* UPLOAD_FAILED after upload-url and PUT, without a confirm.
C26_Witness ==
  /\ upload.op = "uploadUri"
  /\ upload.pc = "done"
  /\ upload.result = "UPLOAD_FAILED"
  /\ putResult = [kind |-> "status", status |-> 300]
  /\ storageLog = <<"upload-url", "PUT">>
====
